---- MODULE Spec2Model ----
(***************************************************************************)
(* The external process bridge of src-tauri/src/python_bridge.rs: one call *)
(* of run_python_analysis, get_db_data, calculate_metrics or               *)
(* update_terminology_mapping against the worker it spawns.                *)
(*                                                                         *)
(* Time is counted in ticks of one poll sleep (50 ms in the source); the   *)
(* 900 s deadline and the 5 s cleanup window are scaled down to a few      *)
(* ticks.  `elapsed` is the reading of the Instant captured last           *)
(* (start_time, then cleanup_start).                                       *)
(*                                                                         *)
(* The worker's whole output on stdout is `script`; the payload of a line  *)
(* is its position in the script, so two lines of the same shape are still *)
(* told apart.                                                             *)
(*                                                                         *)
(* Beside that call the module holds, each under a specification of its    *)
(* own: a second invocation in flight (SpecTwo), the thread of             *)
(* start_db_streaming (SpecStream), the Ollama commands of ollama.rs       *)
(* (SpecOllama), the lookup commands with run_python_script_with_timeout   *)
(* (SpecLookup), the settings commands of settings.rs (SpecSettings), a    *)
(* worker that writes diagnostics ahead of its output (SpecPipe), the body *)
(* of a chat_stream response cut into chunks (SpecChunks), and             *)
(* calculate_metrics with a worker that has output to print (SpecMetrics). *)
(***************************************************************************)
EXTENDS Integers, Sequences, FiniteSets, TLC

VARIABLES
    fn,              \* the command running: "analysis", "db", "metrics" or "mapping"
    script,          \* every line the worker writes to stdout, in order
    pc,              \* where the call is
    rpos,            \* lines taken from reader.lines() so far
    elapsed,         \* ticks since the Instant captured last
    final_response,  \* 0 = None, else the script position of the response
    emitted,         \* the "pdf-progress" emit calls, in order
    result,          \* what the call returned
    chan,            \* the bridge's ends of the three pipes
    child,           \* the process the call's Child handle names, 0 before spawn
    errBuf,          \* lines waiting in the stderr pipe
    errRead,         \* lines stderr_reader.lines().take(10) has yielded
    status,          \* an exit status was seen by try_wait in the cleanup loop
    phases,          \* which of drain / wait / kill the call has performed
    lateAt,          \* position of the line read after the deadline expired, or 0
    acceptedLate,    \* a line read after the deadline expired was classified
    sinkFailed,      \* positions of the progress lines whose emit returned Err
    written,         \* requests written to the worker's stdin
    spawns,          \* processes the call has spawned
    rechecks,        \* try_wait calls made after the Reaper's kill
    procs,           \* the operating system's processes, by process id
    peer,            \* another invocation in flight, as far as it shows outside
    tpc,             \* where the thread of start_db_streaming is
    counter,         \* its iteration counter
    dbFile,          \* extracted_data.db exists
    updates,         \* "db-update" emit calls so far
    lock,            \* who holds the Mutex<SettingsStore>, or "free"
    settings,        \* settings.llm.ollama_host and ollama_port in the store
    opc,             \* where each Ollama command is
    upc,             \* where update_llm_settings / update_setting is
    url,             \* bridge_url of each Ollama command
    remote,          \* the body of the /api/chat response: items sent, closed
    taken,           \* items stream.next() has yielded to chat_stream
    chatEvents,      \* the events chat_stream has emitted, in order
    ores,            \* what each Ollama command returned
    cmd,             \* the lookup command invoked
    query,           \* its query or symbol argument
    sout,            \* what the lookup script prints if it runs to the end
    spc,             \* where run_python_script_with_timeout is
    waited,          \* ticks since `start`
    sworker,         \* the process run_python_script_with_timeout spawned
    sres,            \* what run_python_script_with_timeout returned
    cres,            \* what the lookup command returned
    prefs,           \* the settings update_setting can set, in the store
    file,            \* settings.json
    ucalls,          \* the calls of update_setting and update_llm_settings
    errOwed,         \* stderr lines the worker writes before its next stdout line
    dbLog            \* what is known of the "db-update" events and of the stop

\* The state of one invocation: its locals and what is recorded about it.
callVars == <<fn, script, pc, rpos, elapsed, final_response, emitted, result, chan,
              child, errBuf, errRead, status, phases, lateAt, acceptedLate,
              sinkFailed, written, spawns, rechecks>>

\* What no step of the invocation at hand touches.
\* The thread that start_db_streaming spawns.
streamVars == <<tpc, counter, dbFile, updates, dbLog>>

\* The Ollama commands and the settings store.
ollamaVars == <<lock, settings, opc, upc, url, remote, taken, chatEvents, ores>>

\* A lookup command and its call of run_python_script_with_timeout.
lookupVars == <<cmd, query, sout, spc, waited, sworker, sres, cres>>

\* The rest of the settings store, its file, and the commands that write it.
storeVars == <<prefs, file, ucalls>>

outside == <<peer, streamVars, ollamaVars, lookupVars, storeVars, errOwed>>

vars == <<callVars, procs, outside>>

----------------------------------------------------------------------------
(* Bounds of the model *)

MaxLines == 3        \* longest worker output, in lines
TimeoutTicks == 1    \* timeout_duration, scaled
CleanupTicks == 2    \* cleanup_timeout, scaled
PipeCap == 1         \* lines the stderr pipe holds
MaxCalls == 2        \* invocations in flight together
MaxIterations == 103 \* iterations of the streaming loop that are followed
MaxChunks == 2       \* items the remote sends on one chat stream
MaxBody == 4         \* pieces in the body of a chat_stream response

(* Program constants *)

PollTicks == 1       \* thread::sleep(Duration::from_millis(50)): the tick
DrainLimit == 10     \* stderr_reader.lines().take(10)
StopAfter == 100     \* if counter > 100 { break; }

Min(a, b) == IF a < b THEN a ELSE b

\* The clock saturates where no comparison can tell it from a later instant:
\* in the read loop one tick past the deadline plus a poll interval, in the
\* cleanup loop at the cleanup window.
ClockCap(p) == IF p = "read" THEN TimeoutTicks + PollTicks + 1 ELSE CleanupTicks

----------------------------------------------------------------------------
(* Lines of the worker's stdout.                                           *)
(*   utf8    reader.lines() yields Ok(line)                                *)
(*   brace   line.trim().starts_with('{')                                  *)
(*   json    the line is a JSON object                                     *)
(*   status  the value of its "status" field, "none" when absent           *)
(*   pfields it has currentPage, totalPages, percentage and message        *)

NoiseLine    == [utf8 |-> TRUE,  brace |-> FALSE, json |-> FALSE, status |-> "none",     pfields |-> FALSE]
ReadErrLine  == [utf8 |-> FALSE, brace |-> FALSE, json |-> FALSE, status |-> "none",     pfields |-> FALSE]
JunkLine     == [utf8 |-> TRUE,  brace |-> TRUE,  json |-> TRUE,  status |-> "none",     pfields |-> FALSE]
ProgressLine == [utf8 |-> TRUE,  brace |-> TRUE,  json |-> TRUE,  status |-> "progress", pfields |-> TRUE]
PartialLine  == [utf8 |-> TRUE,  brace |-> TRUE,  json |-> TRUE,  status |-> "progress", pfields |-> FALSE]
TerminalLine == [utf8 |-> TRUE,  brace |-> TRUE,  json |-> TRUE,  status |-> "success",  pfields |-> FALSE]
ShapedLine   == [utf8 |-> TRUE,  brace |-> TRUE,  json |-> TRUE,  status |-> "success",  pfields |-> TRUE]

Lines == {NoiseLine, ReadErrLine, JunkLine, ProgressLine, PartialLine, TerminalLine, ShapedLine}

Scripts == UNION {[1..n -> Lines] : n \in 0..MaxLines}

\* serde_json::from_str::<ProgressUpdate>: status, currentPage, totalPages,
\* percentage and message are all required.
ParsesAsProgressUpdate(l) == l.json /\ l.status # "none" /\ l.pfields

\* serde_json::from_str::<PythonResponse>: only status is required, unknown
\* fields are ignored.
ParsesAsPythonResponse(l) == l.json /\ l.status # "none"

\* Mutant of SkipsAsNoise: the test negated, so that the lines starting with
\* '{' are the ones skipped.
SkipsAsNoiseInverted(l) == l.brace

\* if !line.trim().starts_with('{') { continue; }
SkipsAsNoise(l) == ~l.brace

\* Mutant of Classify: the response shape is tried first.
ClassifyResponseFirst(l) ==
    IF ParsesAsPythonResponse(l) THEN "terminal"
    ELSE IF ParsesAsProgressUpdate(l) /\ l.status = "progress" THEN "progress"
    ELSE "skip"

\* What the read loop of run_python_analysis does with a line that starts with
\* '{': a ProgressUpdate whose status is "progress" is forwarded, anything
\* else that parses as a PythonResponse is the response.
Classify(l) ==
    IF ParsesAsProgressUpdate(l) /\ l.status = "progress" THEN "progress"
    ELSE IF ParsesAsPythonResponse(l) THEN "terminal"
    ELSE "skip"

\* The body of the read loop of run_python_analysis for one line.
LineAction(l) ==
    IF ~l.utf8 THEN "skip"
    ELSE IF SkipsAsNoise(l) THEN "skip"
    ELSE Classify(l)

\* The body of the read loop of get_db_data for one line.
DbLineAction(l) ==
    IF ~l.utf8 THEN "skip"
    ELSE IF SkipsAsNoise(l) THEN "skip"
    ELSE IF ParsesAsPythonResponse(l) THEN "terminal"
    ELSE "skip"

ActionOf(f, l) == IF f = "analysis" THEN LineAction(l) ELSE DbLineAction(l)

\* Mutant of Expired: the deadline is noticed one tick late.
ExpiredOneTickLate(e) == e > TimeoutTicks + 1

\* start_time.elapsed() > timeout_duration
Expired(e) == e > TimeoutTicks

\* Mutant of Forward: the newest event is put in front of the earlier ones.
ForwardNewestFirst(em, i) == <<i>> \o em

\* app.emit("pdf-progress", progress.clone())
Forward(em, i) == Append(em, i)

\* continue: the next iteration of the read loop
ContinuePc == "read"

\* break: leave the read loop.  run_python_analysis goes on to the stderr
\* drain, get_db_data to child.wait().
BreakPc(f) == IF f = "analysis" THEN "drain" ELSE "wait"

\* Mutant of AfterTerminal: the break is missing, the loop reads on.
AfterTerminalKeepsReading(f) == ContinuePc

\* final_response = Some(response); break;
AfterTerminal(f) == BreakPc(f)

\* The request is written through child.stdin.as_mut() in run_python_analysis,
\* which leaves the handle in the Child, and through child.stdin.take() in
\* get_db_data, which drops it at the end of the block.
StdinAfterWrite(f) == IF f = "analysis" THEN "open" ELSE "closed"

\* Mutant of AfterLaunchFailure: the launch is tried again.
RetryLaunch == "init"

\* ok_or(..)? and map_err(..)? on find_python, find_api_script and spawn: the
\* error is returned, nothing is tried again.
AfterLaunchFailure == "done"

\* calculate_metrics builds `_request` and never writes it; the other commands
\* write theirs right after the spawn.
WritesRequest(f) == f # "metrics"

\* What follows the write: the read loop, or in update_terminology_mapping
\* child.wait() at once.
AfterWrite(f) == IF f = "mapping" THEN "wait" ELSE ContinuePc

\* Mutant of AfterEmit: an emit that fails ends the read loop.
AfterEmitStopsOnFailure(f, ok) == IF ok THEN ContinuePc ELSE BreakPc(f)

\* let _ = app.emit(..); continue;  whatever emit returned
AfterEmit(f, ok) == ContinuePc

NoResult == [kind |-> "none", payload |-> 0]
Ok(i)   == [kind |-> "ok", payload |-> i]
Err(k)  == [kind |-> k, payload |-> 0]

NoChild  == [stdin |-> "none", stdout |-> "none", stderr |-> "none"]
Piped    == [stdin |-> "open", stdout |-> "open", stderr |-> "open"]
\* .stdin(Stdio::piped()).stdout(Stdio::null()).stderr(Stdio::null())
InputOnly == [stdin |-> "open", stdout |-> "none", stderr |-> "none"]

\* The commands whose worker is spawned with stdout and stderr piped.
ReadsOutput(f) == f \in {"analysis", "db"}

\* What spawn() leaves in the Child.
SpawnPipes(f) == IF ReadsOutput(f) THEN Piped ELSE InputOnly
\* Dropping the Child, the BufReader and the stderr handle closes every end
\* the bridge still holds.
Dropped  == [stdin |-> "closed", stdout |-> "closed", stderr |-> "closed"]

NoWorker == [mode |-> "none", in |-> FALSE, out |-> FALSE, err |-> FALSE]
Dead     == [mode |-> "exited", in |-> FALSE, out |-> FALSE, err |-> FALSE]
Killed   == [mode |-> "killed", in |-> FALSE, out |-> FALSE, err |-> FALSE]

\* child.kill(): ends a process that has not exited yet.
Kill(w) == IF w.mode = "exited" THEN w ELSE Killed

\* Process ids; 0 stands for no process.
Pids == 1..MaxCalls

\* Mutant of NewPid: a pooled worker, the process already there is handed out
\* again.
PooledPid(ps) ==
    IF \E p \in Pids : ps[p] # NoWorker
    THEN CHOOSE p \in Pids : ps[p] # NoWorker
    ELSE CHOOSE p \in Pids : \A q \in Pids : p <= q

\* Command::spawn() starts a process of its own each time it is called.
NewPid(ps) == CHOOSE p \in Pids : ps[p] = NoWorker /\ \A q \in Pids : ps[q] = NoWorker => p <= q

\* The process behind the call's Child.
worker   == procs[child]
Alive    == worker.mode \in {"running", "awaitEOF"}

\* Mutant of DrainTakes: one line more than the limit is read.
DrainTakesOneMore(n) == n <= DrainLimit

\* stderr_reader.lines().take(10): the iterator yields while fewer than ten
\* lines have been taken.
DrainTakes(n) == n < DrainLimit

\* Mutant of KillsWhen: the kill is issued whatever the cleanup loop saw.
KillsAlways(st) == TRUE

\* if status.is_none() { let _ = child.kill(); .. }
KillsWhen(st) == ~st

\* match final_response { Some(response) => Ok(response), None => Err(..) }
Outcome(fr) == IF fr # 0 THEN Ok(fr) ELSE Err("noresponse")

----------------------------------------------------------------------------
\* An invocation of the command f that has not started; s is what its worker
\* will write.
InitCall(f, s) ==
    /\ fn = f
    /\ script = s
    /\ pc = "init"
    /\ rpos = 0
    /\ elapsed = 0
    /\ final_response = 0
    /\ emitted = << >>
    /\ result = NoResult
    /\ chan = NoChild
    /\ child = 0
    /\ errBuf = 0
    /\ errRead = 0
    /\ status = FALSE
    /\ phases = {}
    /\ lateAt = 0
    /\ acceptedLate = FALSE
    /\ sinkFailed = {}
    /\ written = 0
    /\ spawns = 0
    /\ rechecks = 0

NoProcs == [p \in 0..MaxCalls |-> NoWorker]

\* No other invocation.
Absent == [pc |-> "off", child |-> 0, phases |-> {}]

\* start_db_streaming has not been called; d tells whether the database file
\* exists.
\* No "db-update" event has been emitted and stop_db_streaming has not been
\* called.
\*   first    the action of the first event, or "none"
\*   others   the actions of the events after the first
\*   stopped  stop_db_streaming has returned
\*   late     an event was emitted after stop_db_streaming had returned
NoLog == [first |-> "none", others |-> {}, stopped |-> FALSE, late |-> FALSE]

\* action: if counter == 1 { "initial" } else { "incremental" }
UpdateAction(c) == IF c = 1 THEN "initial" ELSE "incremental"

\* The log after an event with action a.
Logged(log, a) ==
    [log EXCEPT !.first = IF @ = "none" THEN a ELSE @,
                !.others = IF log.first = "none" THEN @ ELSE @ \cup {a},
                !.late = @ \/ log.stopped]

NoStreaming(d) ==
    /\ tpc = "off"
    /\ counter = 0
    /\ dbFile = d
    /\ updates = 0
    /\ dbLog = NoLog

\* The Ollama commands modelled: chat_stream, and chat for the commands that
\* make a request and read one JSON document.
OllamaCmds == {"chat_stream", "chat"}

\* LLMSettings::default(): ollama_host "localhost", ollama_port 11434
DefaultSettings == [host |-> "localhost", port |-> 11434]

\* Values update_llm_settings may store.
Hosts == {"localhost", " LocalHost ", "", "ollama.lan"}
Ports == {11434, 8080}

\* str::trim and str::to_lowercase on these hosts.
Trim(h) == IF h = " LocalHost " THEN "LocalHost" ELSE h
Lower(h) == IF h = "LocalHost" THEN "localhost" ELSE h

\* get_base_url: the host trimmed, an empty host or "localhost" in any case
\* replaced by 127.0.0.1, and the port.
BaseUrl(st) ==
    LET host == Trim(st.host)
    IN  [host |-> IF host = "" \/ Lower(host) = "localhost" THEN "127.0.0.1" ELSE host,
         port |-> st.port]

\* Mutant of GuardAfterGetBaseUrl: the MutexGuard is handed to the caller and
\* lives on through the request.
GuardKeptByCaller(c) == c

\* `store` is a local of get_base_url: the guard is dropped when it returns.
GuardAfterGetBaseUrl(c) == "free"

\* The lines of a chunk, as text.lines() yields them.
\*   json  serde_json::from_str::<Value>(line) is Ok
\*   done  the "done" field of the document: "true", "false", or "absent"
ContentLine == [json |-> TRUE,  done |-> "false"]
DoneLine    == [json |-> TRUE,  done |-> "true"]
PlainLine   == [json |-> TRUE,  done |-> "absent"]
TextLine    == [json |-> FALSE, done |-> "absent"]

\* The items of a response body: Ok(chunk) with the lines of the chunk, or
\* Err(e).
ContentChunk == [ok |-> TRUE,  lines |-> <<ContentLine>>]
DoneChunk    == [ok |-> TRUE,  lines |-> <<DoneLine>>]
JunkChunk    == [ok |-> TRUE,  lines |-> <<TextLine>>]
MixedChunk   == [ok |-> TRUE,  lines |-> <<PlainLine, TextLine, DoneLine>>]
ErrItem      == [ok |-> FALSE, lines |-> << >>]
Items == {ContentChunk, DoneChunk, JunkChunk, MixedChunk, ErrItem}

\* val.get("done").and_then(|d| d.as_bool()).unwrap_or(false)
DoneOf(l) == l.done = "true"

\* The chunk says the answer is complete.
SaysDone(item) == \E k \in 1..Len(item.lines) : item.lines[k].json /\ DoneOf(item.lines[k])

\* The event emitted for line k of item n; k = 0 is the item itself, an error.
ChatEvent(n, k, l) == [topic |-> "chat-stream-event", done |-> DoneOf(l), at |-> <<n, k>>]
ChatError(n) == [topic |-> "chat-stream-error", done |-> FALSE, at |-> <<n, 0>>]

\* for line in text.lines() { if let Ok(val) = from_str(line) { emit } }
RECURSIVE LineEvents(_, _, _)
LineEvents(n, ls, k) ==
    IF k > Len(ls) THEN << >>
    ELSE (IF ls[k].json THEN <<ChatEvent(n, k, ls[k])>> ELSE << >>) \o LineEvents(n, ls, k + 1)

\* Mutant of EventsOf: only the first line of a chunk is looked at.
EventsOfFirstLine(item, n) ==
    IF ~item.ok THEN <<ChatError(n)>>
    ELSE IF item.lines[1].json THEN <<ChatEvent(n, 1, item.lines[1])>>
    ELSE << >>

\* What chat_stream emits for item n of the body.
EventsOf(item, n) ==
    IF ~item.ok THEN <<ChatError(n)>> ELSE LineEvents(n, item.lines, 1)

\* Mutant of LeavesLoop: the loop ends on the line that says it is done.
LeavesLoopOnDone(item) == item.ok /\ SaysDone(item)

\* while let Some(item) = stream.next().await { .. }: the body has no break and
\* no return, whatever the item.
LeavesLoop(item) == FALSE

NoUrl == [host |-> "none", port |-> "none"]

----------------------------------------------------------------------------
(* The settings store and its file *)

BoolKeys   == {"auto_start_ollama", "enableAI"}
StrKeys    == {"theme", "accentColor", "aiProvider", "modelName"}
StructKeys == {"apiKeys", "supabaseConfig"}

\* The keys update_setting matches on.
Keys == BoolKeys \cup StrKeys \cup StructKeys

\* A key it does not match on.
OtherKeys == {"ollama_host"}

\* AppSettings::default(), but for llm.
DefaultPrefs ==
    [k \in Keys |->
        CASE k \in BoolKeys      -> TRUE
          [] k = "theme"          -> "system"
          [] k = "accentColor"    -> "violet"
          [] k = "aiProvider"     -> "gemini"
          [] k = "modelName"      -> ""
          [] k \in StructKeys     -> "default"]

\* The values passed: a JSON boolean, a JSON string, and a JSON object that
\* deserializes as ApiKeys and as SupabaseConfig.
JsonValues == {"false", "dark", "object"}

\* What update_setting stores under a key: as_bool().unwrap_or(true),
\* as_str().unwrap_or(<default>), or the struct when from_value is Ok and
\* the old value when it is not.
Converted(k, v, old) ==
    CASE k \in BoolKeys   -> (v # "false")
      [] k \in StrKeys    -> IF v = "dark" THEN "dark" ELSE DefaultPrefs[k]
      [] k \in StructKeys -> IF v = "object" THEN "custom" ELSE old

\* Mutant of Recognized: the match has a catch-all arm that goes on to save.
RecognizedAny(k) == TRUE

\* The arms of `match key.as_str()` other than `_ => return Err(..)`.
Recognized(k) == k \in Keys

\* store.save(): the whole of self.settings, serialized and written.
Persisted(llm, p) == [state |-> "whole", llm |-> llm, prefs |-> p]

\* fs::write failed: the file is as it was, or was truncated and holds a part
\* of what was to be written.
FailedWrites(old, llm, p) == {old, [state |-> "partial", llm |-> llm, prefs |-> p]}

\* The file SettingsStore::new found: none, or the one the settings were
\* read from.
NoFile == [state |-> "absent", llm |-> DefaultSettings, prefs |-> DefaultPrefs]

\* The two calls that may run together.
Callers == {"first", "second"}

\* What a call sees of the store and the file.
Snapshot(llm, p, f) == [llm |-> llm, prefs |-> p, file |-> f]

IdleCall ==
    [pc |-> "idle", op |-> "none", key |-> "none", val |-> "none", saves |-> 0,
     res |-> "none",
     before |-> Snapshot(DefaultSettings, DefaultPrefs, NoFile),
     after  |-> Snapshot(DefaultSettings, DefaultPrefs, NoFile)]

\* No call of update_setting or update_llm_settings is made.
NoUpdates ==
    /\ prefs = DefaultPrefs
    /\ file = NoFile
    /\ ucalls = [i \in Callers |-> IdleCall]

----------------------------------------------------------------------------
(* The lookup commands and run_python_script_with_timeout *)

LookupCmds == {"search_companies", "get_company_details", "get_stock_quote", "search_web"}

Queries == {"tcs", "o'neil"}

\* The timeout_secs each command passes.
TimeoutSecs(c) ==
    CASE c = "search_companies"    -> 45
      [] c = "get_company_details" -> 15
      [] c = "get_stock_quote"     -> 15
      [] c = "search_web"          -> 30

\* let timeout = Duration::from_secs(timeout_secs), in ticks: the shortest
\* timeout is one poll interval long.
ScriptTimeout(c) == (TimeoutSecs(c) \div 15) * PollTicks

\* What the script prints.
\*   utf8     read_to_string accepts it
\*   json     serde_json::from_str::<Value> accepts it
\*   success, count, total, error   the fields "success", "count",
\*            "total_count" and "error" of the document, or "absent"
FoundOut   == [utf8 |-> TRUE,  json |-> TRUE,  success |-> "true",   count |-> "2",      total |-> "5",      error |-> "absent"]
RefusedOut == [utf8 |-> TRUE,  json |-> TRUE,  success |-> "false",  count |-> "absent", total |-> "absent", error |-> "rate limited"]
BareOut    == [utf8 |-> TRUE,  json |-> TRUE,  success |-> "absent", count |-> "absent", total |-> "absent", error |-> "absent"]
NotJsonOut == [utf8 |-> TRUE,  json |-> FALSE, success |-> "absent", count |-> "absent", total |-> "absent", error |-> "absent"]
BinaryOut  == [utf8 |-> FALSE, json |-> FALSE, success |-> "absent", count |-> "absent", total |-> "absent", error |-> "absent"]
Outputs == {FoundOut, RefusedOut, BareOut, NotJsonOut, BinaryOut}

NoProcess == [mode |-> "none", code |-> "none"]

\* Option<T>: None, or Some(v)
None == [some |-> FALSE]
Some(v) == [some |-> TRUE, v |-> v]
Opt(f) == IF f = "absent" THEN None ELSE Some(f)

NotReturned == [kind |-> "none"]

\* Mutant of TimedOut: the deadline is noticed one poll late.
TimedOutOnePollLate(w, t) == w > t + PollTicks

\* start.elapsed() > timeout
TimedOut(w, t) == w > t

\* Mutant of OnScriptError: the failure is handed on to the caller as Err.
PropagatesScriptError(e, q) == [kind |-> "Err", e |-> e]

\* Err(e) => Ok(CompanySearchResult { success: false, results: None,
\*                error: Some(e), query: Some(query), count: Some(0) })
OnScriptError(e, q) ==
    [kind |-> "Ok", success |-> FALSE, results |-> None, error |-> Some(e),
     query |-> Some(q), count |-> Some("0")]

\* The `count` of the result: the "count" of the document in
\* search_companies, its "total_count" in search_web, and one or zero in
\* the other two.
CountOf(c, o, success) ==
    CASE c = "search_companies" -> Opt(o.count)
      [] c = "search_web"       -> Opt(o.total)
      [] OTHER                  -> IF success THEN Some("1") ELSE Some("0")

\* Ok(stdout) => parse the document, `?` on failure, and build the result.
OnScriptOutput(c, o, q) ==
    IF ~o.json THEN [kind |-> "Err", e |-> "parse"]
    ELSE LET success == (o.success = "true")
         IN  [kind |-> "Ok", success |-> success, results |-> Some(o),
              error |-> Opt(o.error), query |-> Some(q),
              count |-> CountOf(c, o, success)]

\* match run_python_script_with_timeout(script, ..) { Ok(stdout) => .., Err(e) => .. }
LookupResult(c, o, q, r) ==
    IF r = "ok" THEN OnScriptOutput(c, o, q) ELSE OnScriptError(r, q)

\* No lookup command is invoked.
NoLookup ==
    /\ cmd = "none"
    /\ query = "none"
    /\ sout = BareOut
    /\ spc = "off"
    /\ waited = 0
    /\ sworker = NoProcess
    /\ sres = "none"
    /\ cres = NotReturned

\* No Ollama command and no settings update has been called.
NoOllama ==
    /\ lock = "free"
    /\ settings = DefaultSettings
    /\ opc = [c \in OllamaCmds |-> "idle"]
    /\ upc = "idle"
    /\ url = [c \in OllamaCmds |-> NoUrl]
    /\ remote = [items |-> << >>, closed |-> FALSE]
    /\ taken = 0
    /\ chatEvents = << >>
    /\ ores = [c \in OllamaCmds |-> "none"]

\* One invocation of a command.  The worker of calculate_metrics and of
\* update_terminology_mapping writes to the null device: no output reaches the
\* call.
Init ==
    /\ \E f \in {"analysis", "db", "metrics", "mapping"} :
       \E s \in (IF ReadsOutput(f) THEN Scripts ELSE {<< >>}) :
          InitCall(f, s)
    /\ procs = NoProcs
    /\ errOwed = 0
    /\ peer = Absent
    /\ NoStreaming(FALSE)
    /\ NoOllama
    /\ NoUpdates
    /\ NoLookup

----------------------------------------------------------------------------
(* The call *)

\* find_python() is None, find_api_script() is Err, or spawn() is Err: the
\* call returns before a child exists.
LaunchFail ==
    /\ pc = "init"
    /\ pc' = AfterLaunchFailure
    /\ result' = Err("launch")
    /\ UNCHANGED <<fn, script, rpos, elapsed, final_response, emitted, chan, procs,
                   errBuf, errRead, status, phases, lateAt, acceptedLate, child,
                   sinkFailed, written, spawns, rechecks>>
    /\ UNCHANGED outside

\* Command::new(..).stdin(piped).stdout(piped).stderr(piped).spawn().  The worker
\* either answers as soon as it has read the request line or reads its input to
\* the end first.
Spawn ==
    /\ pc = "init"
    /\ child' = NewPid(procs)
    /\ \E m \in {"running", "awaitEOF"} :
          procs' = [procs EXCEPT ![child'] =
                       [mode |-> m, in |-> TRUE,
                        out |-> ReadsOutput(fn), err |-> ReadsOutput(fn)]]
    /\ spawns' = spawns + 1
    /\ chan' = SpawnPipes(fn)
    /\ pc' = "spawned"
    /\ UNCHANGED <<fn, script, rpos, elapsed, final_response, emitted, result,
                   errBuf, errRead, status, phases, lateAt, acceptedLate,
                   sinkFailed, written, rechecks>>
    /\ UNCHANGED outside

\* write_all(request), write_all("\n"), flush() succeed; stderr and stdout are
\* taken; start_time = Instant::now().
WriteOk ==
    /\ pc = "spawned"
    /\ WritesRequest(fn)
    /\ worker.in
    /\ written' = written + 1
    /\ chan' = [chan EXCEPT !.stdin = StdinAfterWrite(fn)]
    /\ elapsed' = 0
    /\ pc' = AfterWrite(fn)
    /\ UNCHANGED <<fn, script, rpos, final_response, emitted, result, procs,
                   errBuf, errRead, status, phases, lateAt, acceptedLate, child,
                   sinkFailed, spawns, rechecks>>
    /\ UNCHANGED outside

\* The write fails (the worker has closed its end of the pipe): the error is
\* returned with `?`, the Child is dropped, nothing kills or waits for it.
WriteFail ==
    /\ pc = "spawned"
    /\ WritesRequest(fn)
    /\ ~worker.in
    /\ pc' = "done"
    /\ result' = Err("write")
    /\ chan' = Dropped
    /\ UNCHANGED <<fn, script, rpos, elapsed, final_response, emitted, procs,
                   errBuf, errRead, status, phases, lateAt, acceptedLate, child,
                   sinkFailed, written, spawns, rechecks>>
    /\ UNCHANGED outside

\* calculate_metrics: the worker was spawned with stdout(Stdio::null()), so
\* child.stdout is None and `child.stdout.take().ok_or(..)?` returns the error.
\* Nothing was written, nothing kills or waits for the worker; the Child is
\* dropped.
CaptureFail ==
    /\ pc = "spawned"
    /\ ~WritesRequest(fn)
    /\ chan.stdout = "none"
    /\ pc' = "done"
    /\ result' = Err("capture")
    /\ chan' = Dropped
    /\ UNCHANGED <<fn, script, rpos, elapsed, final_response, emitted, procs,
                   errBuf, errRead, status, phases, lateAt, acceptedLate, child,
                   sinkFailed, written, spawns, rechecks>>
    /\ UNCHANGED outside

\* reader.lines() has a line to yield: the worker has written it.
LineReady ==
    /\ pc = "read"
    /\ rpos < Len(script)
    /\ worker.mode # "awaitEOF"
    /\ errOwed = 0

\* The timeout check at the top of the loop body fires: kill and return.
ReadTimeout ==
    /\ LineReady
    /\ Expired(elapsed)
    /\ rpos' = rpos + 1
    /\ lateAt' = rpos + 1
    /\ procs' = [procs EXCEPT ![child] = Kill(worker)]
    /\ phases' = phases \cup {"kill"}
    /\ pc' = "done"
    /\ result' = Err("timeout")
    /\ chan' = Dropped
    /\ UNCHANGED <<fn, script, elapsed, final_response, emitted, errBuf, errRead,
                   status, acceptedLate, child, sinkFailed, written, spawns, rechecks>>
    /\ UNCHANGED outside

\* The line is a read error, does not start with '{', or parses as neither shape.
ReadSkip ==
    /\ LineReady
    /\ ~Expired(elapsed)
    /\ ActionOf(fn, script[rpos + 1]) = "skip"
    /\ rpos' = rpos + 1
    /\ acceptedLate' = (acceptedLate \/ elapsed > TimeoutTicks)
    /\ pc' = ContinuePc
    /\ UNCHANGED <<fn, script, elapsed, final_response, emitted, result, chan,
                   procs, errBuf, errRead, status, phases, lateAt, child,
                   sinkFailed, written, spawns, rechecks>>
    /\ UNCHANGED outside

\* The line is a progress update: emit it, drop what emit returns, and
\* continue.
ReadProgress ==
    /\ LineReady
    /\ ~Expired(elapsed)
    /\ ActionOf(fn, script[rpos + 1]) = "progress"
    /\ rpos' = rpos + 1
    /\ emitted' = Forward(emitted, rpos + 1)
    /\ acceptedLate' = (acceptedLate \/ elapsed > TimeoutTicks)
    /\ \E ok \in BOOLEAN :
          /\ sinkFailed' = IF ok THEN sinkFailed ELSE sinkFailed \cup {rpos + 1}
          /\ pc' = AfterEmit(fn, ok)
    /\ UNCHANGED <<fn, script, elapsed, final_response, result, chan, procs,
                   errBuf, errRead, status, phases, lateAt, child,
                   written, spawns, rechecks>>
    /\ UNCHANGED outside

\* The line is a response: keep it and break.
ReadTerminal ==
    /\ LineReady
    /\ ~Expired(elapsed)
    /\ ActionOf(fn, script[rpos + 1]) = "terminal"
    /\ rpos' = rpos + 1
    /\ final_response' = rpos + 1
    /\ acceptedLate' = (acceptedLate \/ elapsed > TimeoutTicks)
    /\ pc' = AfterTerminal(fn)
    /\ UNCHANGED <<fn, script, elapsed, emitted, result, chan, procs, errBuf,
                   errRead, status, phases, lateAt, child, sinkFailed, written,
                   spawns, rechecks>>
    /\ UNCHANGED outside

\* reader.lines() ends: the pipe is empty and its write end is closed.  No
\* timeout check is made here.
ReadEOF ==
    /\ pc = "read"
    /\ rpos = Len(script)
    /\ ~worker.out
    /\ pc' = BreakPc(fn)
    /\ UNCHANGED <<fn, script, rpos, elapsed, final_response, emitted, result,
                   chan, procs, errBuf, errRead, status, phases, lateAt,
                   acceptedLate, child, sinkFailed, written, spawns, rechecks>>
    /\ UNCHANGED outside

\* One line of stderr_reader.lines().take(10).
DrainLine ==
    /\ pc = "drain"
    /\ DrainTakes(errRead)
    /\ errBuf > 0
    /\ errBuf' = errBuf - 1
    /\ errRead' = errRead + 1
    /\ UNCHANGED <<fn, script, pc, rpos, elapsed, final_response, emitted, result,
                   chan, procs, status, phases, lateAt, acceptedLate, child,
                   sinkFailed, written, spawns, rechecks>>
    /\ UNCHANGED outside

\* The drain ends, after ten lines or at the end of stderr.  stderr_reader
\* goes out of scope with its block, which closes the bridge's end of the
\* pipe and discards what is left in it; cleanup_start = Instant::now().
DrainDone ==
    /\ pc = "drain"
    /\ \/ ~DrainTakes(errRead)
       \/ errBuf = 0 /\ ~worker.err
    /\ phases' = phases \cup {"drain"}
    /\ chan' = [chan EXCEPT !.stderr = "closed"]
    /\ errBuf' = 0
    /\ errRead' = 0
    /\ elapsed' = 0
    /\ pc' = "reap"
    /\ UNCHANGED <<fn, script, rpos, final_response, emitted, result, procs,
                   status, lateAt, acceptedLate, child, sinkFailed, written,
                   spawns, rechecks>>
    /\ UNCHANGED outside

\* try_wait() is Ok(Some(s)) inside the cleanup window: no kill, return.
ReapExited ==
    /\ pc = "reap"
    /\ elapsed < CleanupTicks
    /\ worker.mode = "exited"
    /\ status' = TRUE
    /\ IF KillsWhen(status')
       THEN /\ procs' = [procs EXCEPT ![child] = Kill(worker)]
            /\ phases' = phases \cup {"wait", "kill"}
            /\ rechecks' = rechecks + 1
       ELSE /\ phases' = phases \cup {"wait"}
            /\ UNCHANGED <<procs, rechecks>>
    /\ pc' = "done"
    /\ result' = Outcome(final_response)
    /\ chan' = Dropped
    /\ UNCHANGED <<fn, script, rpos, elapsed, final_response, emitted,
                   errBuf, errRead, lateAt, acceptedLate, child, sinkFailed,
                   written, spawns>>
    /\ UNCHANGED outside

\* try_wait() is Ok(None): sleep 50 ms.
ReapSleep ==
    /\ pc = "reap"
    /\ elapsed < CleanupTicks
    /\ Alive
    /\ phases' = phases \cup {"wait"}
    /\ pc' = "sleep"
    /\ UNCHANGED <<fn, script, rpos, elapsed, final_response, emitted, result,
                   chan, procs, errBuf, errRead, status, lateAt, acceptedLate,
                   child, sinkFailed, written, spawns, rechecks>>
    /\ UNCHANGED outside

\* The cleanup window has elapsed, or try_wait() is Err: status is None, so
\* kill, check the exit status once more (status = child.try_wait()..) and
\* return.
ReapKill ==
    /\ pc = "reap"
    /\ \E waitError \in BOOLEAN :
          /\ waitError \/ elapsed >= CleanupTicks
          /\ ~waitError \/ elapsed < CleanupTicks
    /\ IF KillsWhen(status)
       THEN /\ procs' = [procs EXCEPT ![child] = Kill(worker)]
            /\ phases' = phases \cup {"wait", "kill"}
            /\ rechecks' = rechecks + 1
       ELSE /\ phases' = phases \cup {"wait"}
            /\ UNCHANGED <<procs, rechecks>>
    /\ pc' = "done"
    /\ result' = Outcome(final_response)
    /\ chan' = Dropped
    /\ UNCHANGED <<fn, script, rpos, elapsed, final_response, emitted, errBuf,
                   errRead, status, lateAt, acceptedLate, child, sinkFailed,
                   written, spawns>>
    /\ UNCHANGED outside

\* get_db_data: child.wait() returns once the worker has exited.
DbWait ==
    /\ pc = "wait"
    /\ fn = "db"
    /\ worker.mode = "exited"
    /\ phases' = phases \cup {"wait"}
    /\ pc' = "done"
    /\ result' = Outcome(final_response)
    /\ chan' = Dropped
    /\ UNCHANGED <<fn, script, rpos, elapsed, final_response, emitted, procs,
                   errBuf, errRead, status, lateAt, acceptedLate, child,
                   sinkFailed, written, spawns, rechecks>>
    /\ UNCHANGED outside

\* update_terminology_mapping: let _ = child.wait(); Ok(())
MappingWait ==
    /\ pc = "wait"
    /\ fn = "mapping"
    /\ worker.mode = "exited"
    /\ phases' = phases \cup {"wait"}
    /\ pc' = "done"
    /\ result' = Ok(0)
    /\ chan' = Dropped
    /\ UNCHANGED <<fn, script, rpos, elapsed, final_response, emitted, procs,
                   errBuf, errRead, status, lateAt, acceptedLate, child,
                   sinkFailed, written, spawns, rechecks>>
    /\ UNCHANGED outside

\* Time passes while the call is blocked in a read or a sleep, or is preempted
\* in the cleanup loop.
Tick ==
    /\ pc \in {"read", "reap", "sleep"}
    /\ elapsed' = Min(elapsed + PollTicks, ClockCap(pc))
    /\ pc' = IF pc = "sleep" THEN "reap" ELSE pc
    /\ UNCHANGED <<fn, script, rpos, final_response, emitted, result, chan, procs,
                   errBuf, errRead, status, phases, lateAt, acceptedLate, child,
                   sinkFailed, written, spawns, rechecks>>
    /\ UNCHANGED outside

----------------------------------------------------------------------------
(* The worker *)

Running == pc \notin {"init", "done"} /\ worker.mode = "running" /\ errOwed = 0

\* What the worker does with an output pipe matters to the call only while
\* the call may read it: stdout during the read loop, stderr from then until
\* the drain is over.  What it wrote or closed earlier shows then.
StdoutWatched == pc = "read"
StderrWatched == pc \in {"read", "drain"}

\* The worker closes its standard input before the request arrives.
WorkerCloseStdin ==
    /\ pc = "spawned"
    /\ worker.mode = "running"
    /\ worker.in
    /\ procs' = [procs EXCEPT ![child] = [worker EXCEPT !.in = FALSE]]
    /\ UNCHANGED <<fn, script, pc, rpos, elapsed, final_response, emitted, result,
                   chan, errBuf, errRead, status, phases, lateAt, acceptedLate,
                   child, sinkFailed, written, spawns, rechecks>>
    /\ UNCHANGED outside

\* A worker that reads its input to the end goes on once the bridge has
\* closed its end of stdin.
WorkerSeesEOF ==
    /\ pc \notin {"init", "done"}
    /\ worker.mode = "awaitEOF"
    /\ chan.stdin = "closed"
    /\ procs' = [procs EXCEPT ![child] = [worker EXCEPT !.mode = "running"]]
    /\ UNCHANGED <<fn, script, pc, rpos, elapsed, final_response, emitted, result,
                   chan, errBuf, errRead, status, phases, lateAt, acceptedLate,
                   child, sinkFailed, written, spawns, rechecks>>
    /\ UNCHANGED outside

WorkerWriteErr ==
    /\ Running
    /\ StderrWatched
    /\ worker.err
    /\ errBuf < PipeCap
    /\ errBuf' = errBuf + 1
    /\ UNCHANGED <<fn, script, pc, rpos, elapsed, final_response, emitted, result,
                   chan, procs, errRead, status, phases, lateAt, acceptedLate,
                   child, sinkFailed, written, spawns, rechecks>>
    /\ UNCHANGED outside

\* The worker writes one of the diagnostic lines it produces ahead of its
\* output; the write goes through only while the stderr pipe has room, and
\* nothing but a read of the pipe by the bridge makes room.
WorkerWriteOwed ==
    /\ pc \notin {"init", "done"}
    /\ worker.mode = "running"
    /\ worker.err
    /\ errOwed > 0
    /\ errBuf < PipeCap
    /\ errBuf' = errBuf + 1
    /\ errOwed' = errOwed - 1
    /\ UNCHANGED <<fn, script, pc, rpos, elapsed, final_response, emitted, result,
                   chan, procs, errRead, status, phases, lateAt, acceptedLate,
                   child, sinkFailed, written, spawns, rechecks>>
    /\ UNCHANGED <<peer, streamVars, ollamaVars, lookupVars, storeVars>>

WorkerCloseOut ==
    /\ Running
    /\ StdoutWatched
    /\ worker.out
    /\ procs' = [procs EXCEPT ![child] = [worker EXCEPT !.out = FALSE]]
    /\ UNCHANGED <<fn, script, pc, rpos, elapsed, final_response, emitted, result,
                   chan, errBuf, errRead, status, phases, lateAt, acceptedLate,
                   child, sinkFailed, written, spawns, rechecks>>
    /\ UNCHANGED outside

WorkerCloseErr ==
    /\ Running
    /\ StderrWatched
    /\ worker.err
    /\ procs' = [procs EXCEPT ![child] = [worker EXCEPT !.err = FALSE]]
    /\ UNCHANGED <<fn, script, pc, rpos, elapsed, final_response, emitted, result,
                   chan, errBuf, errRead, status, phases, lateAt, acceptedLate,
                   child, sinkFailed, written, spawns, rechecks>>
    /\ UNCHANGED outside

WorkerExit ==
    /\ Running
    /\ procs' = [procs EXCEPT ![child] = Dead]
    /\ UNCHANGED <<fn, script, pc, rpos, elapsed, final_response, emitted, result,
                   chan, errBuf, errRead, status, phases, lateAt, acceptedLate,
                   child, sinkFailed, written, spawns, rechecks>>
    /\ UNCHANGED outside

----------------------------------------------------------------------------
BridgeNext ==
    \/ LaunchFail
    \/ Spawn
    \/ WriteOk
    \/ WriteFail
    \/ CaptureFail
    \/ ReadTimeout
    \/ ReadSkip
    \/ ReadProgress
    \/ ReadTerminal
    \/ ReadEOF
    \/ DrainLine
    \/ DrainDone
    \/ ReapExited
    \/ ReapSleep
    \/ ReapKill
    \/ DbWait
    \/ MappingWait

WorkerNext ==
    \/ WorkerCloseStdin
    \/ WorkerSeesEOF
    \/ WorkerWriteErr
    \/ WorkerCloseOut
    \/ WorkerCloseErr
    \/ WorkerExit

Next == BridgeNext \/ WorkerNext \/ Tick

Spec == Init /\ [][Next]_vars

----------------------------------------------------------------------------
(* calculate_metrics and what its worker would print *)

\* calculate_metrics is called; the worker, once started, has some output to
\* write to its stdout.
InitMetrics ==
    /\ \E s \in Scripts : InitCall("metrics", s)
    /\ procs = NoProcs
    /\ errOwed = 0
    /\ peer = Absent
    /\ NoStreaming(FALSE)
    /\ NoOllama
    /\ NoUpdates
    /\ NoLookup

NextMetrics ==
    \/ LaunchFail
    \/ Spawn
    \/ CaptureFail
    \/ WorkerCloseStdin
    \/ WorkerExit

SpecMetrics == InitMetrics /\ [][NextMetrics]_vars

----------------------------------------------------------------------------
(* A worker that writes diagnostics ahead of its output *)

\* The worker's stdout: a response, possibly after a progress line or a line
\* of noise, or noise only.
PipeScripts == {<<TerminalLine>>, <<ProgressLine, TerminalLine>>,
                <<NoiseLine, TerminalLine>>, <<NoiseLine>>}

\* run_python_analysis or get_db_data is called with a worker that writes up
\* to one line more than the diagnostic pipe holds before its first output
\* line.
InitPipe ==
    /\ \E f \in {"analysis", "db"} : \E s \in PipeScripts : InitCall(f, s)
    /\ procs = NoProcs
    /\ errOwed \in 0..(PipeCap + 1)
    /\ peer = Absent
    /\ NoStreaming(FALSE)
    /\ NoOllama
    /\ NoUpdates
    /\ NoLookup

PipeBridgeNext ==
    \/ LaunchFail
    \/ Spawn
    \/ WriteOk
    \/ WriteFail
    \/ ReadTimeout
    \/ ReadSkip
    \/ ReadProgress
    \/ ReadTerminal
    \/ ReadEOF
    \/ DrainLine
    \/ DrainDone
    \/ ReapExited
    \/ ReapSleep
    \/ ReapKill
    \/ DbWait

PipeWorkerNext == WorkerNext \/ WorkerWriteOwed

NextPipe == PipeBridgeNext \/ PipeWorkerNext \/ Tick

SpecPipe == InitPipe /\ [][NextPipe]_vars

----------------------------------------------------------------------------------------------------------------------------------------------------
(* Two invocations of run_python_analysis in flight.  The one at hand takes *)
(* the steps above.  The other runs the same code on another thread; of its *)
(* steps the ones that reach outside its own locals are modelled: it spawns *)
(* its worker, and it returns, after a kill (at its deadline, or when its   *)
(* cleanup window is over) or without one.  It may take them at any moment, *)
(* so every interleaving of the two invocations is a behaviour.             *)

\* The outputs of the worker at hand.
TwoScripts == {<<ProgressLine, TerminalLine>>, <<NoiseLine>>}

InitTwo ==
    /\ \E s \in TwoScripts : InitCall("analysis", s)
    /\ procs = NoProcs
    /\ errOwed = 0
    /\ peer = [pc |-> "init", child |-> 0, phases |-> {}]
    /\ NoStreaming(FALSE)
    /\ NoOllama
    /\ NoUpdates
    /\ NoLookup

\* The other invocation spawns its worker.
PeerSpawn ==
    /\ peer.pc = "init"
    /\ LET p == NewPid(procs)
       IN  /\ \E m \in {"running", "awaitEOF"} :
                 procs' = [procs EXCEPT ![p] =
                              [mode |-> m, in |-> TRUE, out |-> TRUE, err |-> TRUE]]
           /\ peer' = [peer EXCEPT !.pc = "flight", !.child = p]
    /\ UNCHANGED <<callVars, streamVars, ollamaVars, lookupVars, storeVars, errOwed>>

\* The other invocation's worker exits.
PeerWorkerExit ==
    /\ peer.pc = "flight"
    /\ procs[peer.child].mode \in {"running", "awaitEOF"}
    /\ procs' = [procs EXCEPT ![peer.child] = Dead]
    /\ UNCHANGED <<callVars, peer, streamVars, ollamaVars, lookupVars, storeVars, errOwed>>

\* The other invocation kills through its own Child, child.kill(), and
\* returns: Timeout, or the outcome after the cleanup window.
PeerKill ==
    /\ peer.pc = "flight"
    /\ procs' = [procs EXCEPT ![peer.child] = Kill(procs[peer.child])]
    /\ peer' = [peer EXCEPT !.pc = "done", !.phases = {"kill"}]
    /\ UNCHANGED <<callVars, streamVars, ollamaVars, lookupVars, storeVars, errOwed>>

\* The other invocation returns without a kill: its write failed, or it saw
\* its worker's exit status.
PeerReturn ==
    /\ peer.pc = "flight"
    /\ peer' = [peer EXCEPT !.pc = "done"]
    /\ UNCHANGED <<callVars, procs, streamVars, ollamaVars, lookupVars, storeVars, errOwed>>

PeerNext ==
    \/ PeerSpawn
    \/ PeerWorkerExit
    \/ PeerKill
    \/ PeerReturn

\* The steps of run_python_analysis.
AnalysisNext ==
    \/ LaunchFail
    \/ Spawn
    \/ WriteOk
    \/ WriteFail
    \/ ReadTimeout
    \/ ReadSkip
    \/ ReadProgress
    \/ ReadTerminal
    \/ ReadEOF
    \/ DrainLine
    \/ DrainDone
    \/ ReapExited
    \/ ReapSleep
    \/ ReapKill

\* The steps of a worker of run_python_analysis, which keeps its end of stdin
\* open: a worker that waits for the end of its input waits for ever.
AnalysisWorkerNext ==
    \/ WorkerCloseStdin
    \/ WorkerWriteErr
    \/ WorkerCloseOut
    \/ WorkerCloseErr
    \/ WorkerExit

NextTwo == AnalysisNext \/ AnalysisWorkerNext \/ Tick \/ PeerNext

SpecTwo == InitTwo /\ [][NextTwo]_vars

----------------------------------------------------------------------------
(* start_db_streaming: a thread that polls the database file and emits      *)
(* "db-update" events.  No bridge call runs beside it.                      *)

InitStream ==
    /\ InitCall("db", << >>)
    /\ procs = NoProcs
    /\ errOwed = 0
    /\ peer = Absent
    /\ \E d \in BOOLEAN : NoStreaming(d)
    /\ NoOllama
    /\ NoUpdates
    /\ NoLookup

\* The bridge, its workers, the other invocation and the Ollama commands take
\* no step.
BridgeIdle == UNCHANGED <<callVars, procs, peer, ollamaVars, lookupVars, storeVars, errOwed>>

\* start_db_streaming: std::thread::spawn(..); Ok(())
StartDbStreaming ==
    /\ tpc = "off"
    /\ tpc' = "top"
    /\ UNCHANGED <<counter, dbFile, updates, dbLog>>
    /\ BridgeIdle

\* counter += 1; std::thread::sleep(Duration::from_secs(2));
LoopTop ==
    /\ tpc = "top"
    /\ counter < MaxIterations
    /\ counter' = counter + 1
    /\ tpc' = "check"
    /\ UNCHANGED <<dbFile, updates, dbLog>>
    /\ BridgeIdle

\* if !Path::new(db_path).exists() { continue; }
SkipMissing ==
    /\ tpc = "check"
    /\ ~dbFile
    /\ tpc' = "top"
    /\ UNCHANGED <<counter, dbFile, updates, dbLog>>
    /\ BridgeIdle

\* The file exists: query it (an error gives an empty list), emit the update,
\* then `if counter > 100 { break; }`.
EmitUpdate ==
    /\ tpc = "check"
    /\ dbFile
    /\ updates' = updates + 1
    /\ dbLog' = Logged(dbLog, UpdateAction(counter))
    /\ tpc' = IF counter > StopAfter THEN "stopped" ELSE "top"
    /\ UNCHANGED <<counter, dbFile>>
    /\ BridgeIdle

\* The database file is created or removed by the worker or the user.
DbFileChanges ==
    /\ tpc \in {"top", "check"}
    /\ dbFile' = ~dbFile
    /\ UNCHANGED <<tpc, counter, updates, dbLog>>
    /\ BridgeIdle

\* stop_db_streaming: app.emit("db-streaming-stopped", true), and the result
\* of the emit is returned; the thread is not told.
StopDbStreaming ==
    /\ tpc # "off"
    /\ ~dbLog.stopped
    /\ dbLog' = [dbLog EXCEPT !.stopped = TRUE]
    /\ UNCHANGED <<tpc, counter, dbFile, updates>>
    /\ BridgeIdle

NextStream ==
    \/ StartDbStreaming
    \/ LoopTop
    \/ SkipMissing
    \/ EmitUpdate
    \/ DbFileChanges
    \/ StopDbStreaming

SpecStream == InitStream /\ [][NextStream]_vars

----------------------------------------------------------------------------
(* The Ollama commands of ollama.rs and the settings commands of            *)
(* settings.rs, each a task of its own.  No bridge call runs beside them.   *)

InitOllama ==
    /\ InitCall("db", << >>)
    /\ procs = NoProcs
    /\ errOwed = 0
    /\ peer = Absent
    /\ NoStreaming(FALSE)
    /\ NoOllama
    /\ NoUpdates
    /\ NoLookup

\* No step of the bridge or of the streaming thread.
OthersIdle == UNCHANGED <<callVars, procs, peer, streamVars, lookupVars, storeVars, errOwed>>

\* get_base_url: let store = state.lock().unwrap();
GetBaseUrlLock(c) ==
    /\ opc[c] = "idle"
    /\ lock = "free"
    /\ lock' = c
    /\ opc' = [opc EXCEPT ![c] = "locked"]
    /\ UNCHANGED <<settings, upc, url, remote, taken, chatEvents, ores>>
    /\ OthersIdle

\* get_base_url reads host and port, formats the URL and returns; the command
\* builds its request and is about to await send().
GetBaseUrlReturn(c) ==
    /\ opc[c] = "locked"
    /\ url' = [url EXCEPT ![c] = BaseUrl(settings)]
    /\ lock' = GuardAfterGetBaseUrl(c)
    /\ opc' = [opc EXCEPT ![c] = "send"]
    /\ UNCHANGED <<settings, upc, remote, taken, chatEvents, ores>>
    /\ OthersIdle

\* chat: send().await is Err, returned with `?`.
ChatSendFails ==
    /\ opc["chat"] = "send"
    /\ opc' = [opc EXCEPT !["chat"] = "done"]
    /\ ores' = [ores EXCEPT !["chat"] = "err"]
    /\ UNCHANGED <<lock, settings, upc, url, remote, taken, chatEvents>>
    /\ OthersIdle

\* chat: send().await is Ok; the command awaits json().
ChatSendOk ==
    /\ opc["chat"] = "send"
    /\ opc' = [opc EXCEPT !["chat"] = "json"]
    /\ UNCHANGED <<lock, settings, upc, url, remote, taken, chatEvents, ores>>
    /\ OthersIdle

\* chat: json().await completes, the document or the error is returned.
ChatJson ==
    /\ opc["chat"] = "json"
    /\ opc' = [opc EXCEPT !["chat"] = "done"]
    /\ \E r \in {"ok", "err"} : ores' = [ores EXCEPT !["chat"] = r]
    /\ UNCHANGED <<lock, settings, upc, url, remote, taken, chatEvents>>
    /\ OthersIdle

\* chat_stream: send().await is Err, returned with `?`.
StreamSendFails ==
    /\ opc["chat_stream"] = "send"
    /\ opc' = [opc EXCEPT !["chat_stream"] = "done"]
    /\ ores' = [ores EXCEPT !["chat_stream"] = "err"]
    /\ UNCHANGED <<lock, settings, upc, url, remote, taken, chatEvents>>
    /\ OthersIdle

\* chat_stream: send().await is Ok; let mut stream = res.bytes_stream();
StreamSendOk ==
    /\ opc["chat_stream"] = "send"
    /\ opc' = [opc EXCEPT !["chat_stream"] = "stream"]
    /\ UNCHANGED <<lock, settings, upc, url, remote, taken, chatEvents, ores>>
    /\ OthersIdle

\* stream.next().await yields Some(item): the events of the item are emitted
\* and the loop goes round.
StreamItem ==
    /\ opc["chat_stream"] = "stream"
    /\ taken < Len(remote.items)
    /\ taken' = taken + 1
    /\ chatEvents' = chatEvents \o EventsOf(remote.items[taken + 1], taken + 1)
    /\ IF LeavesLoop(remote.items[taken + 1])
       THEN /\ opc' = [opc EXCEPT !["chat_stream"] = "done"]
            /\ ores' = [ores EXCEPT !["chat_stream"] = "ok"]
       ELSE UNCHANGED <<opc, ores>>
    /\ UNCHANGED <<lock, settings, upc, url, remote>>
    /\ OthersIdle

\* stream.next().await yields None: the body has ended.  Ok(())
StreamEnd ==
    /\ opc["chat_stream"] = "stream"
    /\ taken = Len(remote.items)
    /\ remote.closed
    /\ opc' = [opc EXCEPT !["chat_stream"] = "done"]
    /\ ores' = [ores EXCEPT !["chat_stream"] = "ok"]
    /\ UNCHANGED <<lock, settings, upc, url, remote, taken, chatEvents>>
    /\ OthersIdle

\* The server sends a chunk, or the connection fails.
RemoteSends ==
    /\ opc["chat_stream"] = "stream"
    /\ ~remote.closed
    /\ Len(remote.items) < MaxChunks
    /\ \E item \in Items : remote' = [remote EXCEPT !.items = Append(@, item)]
    /\ UNCHANGED <<lock, settings, opc, upc, url, taken, chatEvents, ores>>
    /\ OthersIdle

\* The server ends the body.
RemoteCloses ==
    /\ opc["chat_stream"] = "stream"
    /\ ~remote.closed
    /\ remote' = [remote EXCEPT !.closed = TRUE]
    /\ UNCHANGED <<lock, settings, opc, upc, url, taken, chatEvents, ores>>
    /\ OthersIdle

\* update_llm_settings, update_setting: let mut store = state.lock()..?;
UpdateLock ==
    /\ upc = "idle"
    /\ lock = "free"
    /\ lock' = "update"
    /\ upc' = "locked"
    /\ UNCHANGED <<settings, opc, url, remote, taken, chatEvents, ores>>
    /\ OthersIdle

\* store.settings.llm = settings; store.save(): the value is stored, the file
\* written, and the guard dropped on return.
UpdateSave ==
    /\ upc = "locked"
    /\ \E h \in Hosts, p \in Ports : settings' = [host |-> h, port |-> p]
    /\ \/ file' = Persisted(settings', prefs)
       \/ file' \in FailedWrites(file, settings', prefs)
    /\ lock' = "free"
    /\ upc' = "done"
    /\ UNCHANGED <<opc, url, remote, taken, chatEvents, ores, prefs, ucalls>>
    /\ UNCHANGED <<callVars, procs, peer, streamVars, lookupVars, errOwed>>

ChatStreamNext ==
    \/ GetBaseUrlLock("chat_stream")
    \/ GetBaseUrlReturn("chat_stream")
    \/ StreamSendFails
    \/ StreamSendOk
    \/ StreamItem
    \/ StreamEnd

ChatNext ==
    \/ GetBaseUrlLock("chat")
    \/ GetBaseUrlReturn("chat")
    \/ ChatSendFails
    \/ ChatSendOk
    \/ ChatJson

NextOllama ==
    \/ ChatStreamNext
    \/ ChatNext
    \/ RemoteSends
    \/ RemoteCloses
    \/ UpdateLock
    \/ UpdateSave

SpecOllama == InitOllama /\ [][NextOllama]_vars

----------------------------------------------------------------------------
(* The body of a chat_stream response, as the transport delivers it *)

\* What a body is made of; the transport may cut it between any two of
\* these.
Bytes == {"{", "\"done\":true", "}", "\n"}

Bodies == UNION {[1..n -> Bytes] : n \in 0..MaxBody}

\* text.lines(): the text is cut at each "\n", which is dropped; what follows
\* the last "\n" is a line if it is not empty.
RECURSIVE TextLines(_, _)
TextLines(bs, cur) ==
    IF bs = << >> THEN (IF cur = << >> THEN << >> ELSE <<cur>>)
    ELSE IF Head(bs) = "\n" THEN <<cur>> \o TextLines(Tail(bs), << >>)
    ELSE TextLines(Tail(bs), Append(cur, Head(bs)))

\* serde_json::from_str::<Value>(line): of the lines these bytes make, {} and
\* {"done":true} are documents and nothing else is.
ParsedLine(text) ==
    IF text = <<"{", "}">> THEN PlainLine
    ELSE IF text = <<"{", "\"done\":true", "}">> THEN DoneLine
    ELSE TextLine

\* Ok(chunk) for a run of bytes: String::from_utf8_lossy(&chunk).lines(),
\* each line parsed by itself.
Chunk(bs) ==
    LET ls == TextLines(bs, << >>)
    IN  [ok |-> TRUE, lines |-> [k \in 1..Len(ls) |-> ParsedLine(ls[k])]]

\* chat_stream is called; the server is to answer with some body.
InitChunks ==
    /\ InitCall("db", << >>)
    /\ procs = NoProcs
    /\ errOwed = 0
    /\ peer = Absent
    /\ NoStreaming(FALSE)
    /\ lock = "free"
    /\ settings = DefaultSettings
    /\ opc = [c \in OllamaCmds |-> "idle"]
    /\ upc = "idle"
    /\ url = [c \in OllamaCmds |-> NoUrl]
    /\ \E b \in Bodies :
          remote = [items |-> << >>, closed |-> FALSE, body |-> b, sent |-> 0]
    /\ taken = 0
    /\ chatEvents = << >>
    /\ ores = [c \in OllamaCmds |-> "none"]
    /\ NoUpdates
    /\ NoLookup

\* The transport delivers the next bytes of the body, as many as it likes.
RemoteSendsBytes ==
    /\ opc["chat_stream"] = "stream"
    /\ ~remote.closed
    /\ \E n \in 1..(Len(remote.body) - remote.sent) :
          remote' = [remote EXCEPT
                        !.items = Append(@, Chunk(SubSeq(remote.body, remote.sent + 1,
                                                         remote.sent + n))),
                        !.sent = @ + n]
    /\ UNCHANGED <<lock, settings, opc, upc, url, taken, chatEvents, ores>>
    /\ OthersIdle

\* The whole body has been delivered and the stream ends.
RemoteEndsBody ==
    /\ opc["chat_stream"] = "stream"
    /\ ~remote.closed
    /\ remote.sent = Len(remote.body)
    /\ remote' = [remote EXCEPT !.closed = TRUE]
    /\ UNCHANGED <<lock, settings, opc, upc, url, taken, chatEvents, ores>>
    /\ OthersIdle

NextChunks == ChatStreamNext \/ RemoteSendsBytes \/ RemoteEndsBody

SpecChunks == InitChunks /\ [][NextChunks]_vars

----------------------------------------------------------------------------
(* search_companies, get_company_details, get_stock_quote and search_web,   *)
(* each a call of run_python_script_with_timeout whose result it wraps.     *)

InitLookup ==
    /\ InitCall("db", << >>)
    /\ procs = NoProcs
    /\ errOwed = 0
    /\ peer = Absent
    /\ NoStreaming(FALSE)
    /\ NoOllama
    /\ NoUpdates
    /\ cmd \in LookupCmds
    /\ query \in Queries
    /\ sout \in Outputs
    /\ spc = "init"
    /\ waited = 0
    /\ sworker = NoProcess
    /\ sres = "none"
    /\ cres = NotReturned

\* No step of the bridge's other commands.
RestIdle == UNCHANGED <<callVars, procs, peer, streamVars, ollamaVars, storeVars, errOwed>>

\* run_python_script_with_timeout returns r, and the command what it makes
\* of r.
ScriptReturns(r) ==
    /\ sres' = r
    /\ cres' = LookupResult(cmd, sout, query, r)
    /\ spc' = "done"

\* find_python() is None, or spawn() fails: Err, with no process made.
ScriptLaunchFail ==
    /\ spc = "init"
    /\ \E e \in {"Python not found", "Failed to spawn Python"} : ScriptReturns(e)
    /\ UNCHANGED <<cmd, query, sout, waited, sworker>>
    /\ RestIdle

\* spawn() succeeds; let start = Instant::now();
ScriptSpawn ==
    /\ spc = "init"
    /\ sworker' = [mode |-> "running", code |-> "none"]
    /\ waited' = 0
    /\ spc' = "poll"
    /\ UNCHANGED <<cmd, query, sout, sres, cres>>
    /\ RestIdle

\* try_wait() is Ok(Some(status)) and the status is a failure.
PollFailed ==
    /\ spc = "poll"
    /\ sworker.mode = "exited" /\ sworker.code = "failure"
    /\ ScriptReturns("Script failed")
    /\ UNCHANGED <<cmd, query, sout, waited, sworker>>
    /\ RestIdle

\* try_wait() is Ok(Some(status)) and the status is success: break, and read
\* stdout to its end.
PollSucceeded ==
    /\ spc = "poll"
    /\ sworker.mode = "exited" /\ sworker.code = "success"
    /\ ScriptReturns(IF sout.utf8 THEN "ok" ELSE "Failed to read output")
    /\ UNCHANGED <<cmd, query, sout, waited, sworker>>
    /\ RestIdle

\* try_wait() is Ok(None) and the timeout has elapsed: kill, Err.
PollTimedOut ==
    /\ spc = "poll"
    /\ sworker.mode = "running"
    /\ TimedOut(waited, ScriptTimeout(cmd))
    /\ sworker' = [mode |-> "killed", code |-> "none"]
    /\ ScriptReturns("Operation timed out")
    /\ UNCHANGED <<cmd, query, sout, waited>>
    /\ RestIdle

\* try_wait() is Ok(None) and the timeout has not elapsed: sleep 50 ms.
PollSleep ==
    /\ spc = "poll"
    /\ sworker.mode = "running"
    /\ ~TimedOut(waited, ScriptTimeout(cmd))
    /\ spc' = "sleep"
    /\ UNCHANGED <<cmd, query, sout, waited, sworker, sres, cres>>
    /\ RestIdle

\* try_wait() is Err: the error is returned, the process left as it is.
PollError ==
    /\ spc = "poll"
    /\ ScriptReturns("Error waiting for process")
    /\ UNCHANGED <<cmd, query, sout, waited, sworker>>
    /\ RestIdle

\* The sleep is over.
SleepOver ==
    /\ spc = "sleep"
    /\ waited' = waited + PollTicks
    /\ spc' = "poll"
    /\ UNCHANGED <<cmd, query, sout, sworker, sres, cres>>
    /\ RestIdle

\* The script ends, with a success or a failure status.
ScriptExits ==
    /\ spc \in {"poll", "sleep"}
    /\ sworker.mode = "running"
    /\ \E c \in {"success", "failure"} : sworker' = [mode |-> "exited", code |-> c]
    /\ UNCHANGED <<cmd, query, sout, spc, waited, sres, cres>>
    /\ RestIdle

ScriptNext ==
    \/ ScriptLaunchFail
    \/ ScriptSpawn
    \/ PollFailed
    \/ PollSucceeded
    \/ PollTimedOut
    \/ PollSleep
    \/ PollError

NextLookup == ScriptNext \/ SleepOver \/ ScriptExits

SpecLookup == InitLookup /\ [][NextLookup]_vars

----------------------------------------------------------------------------
(* update_setting and update_llm_settings, two calls at a time.             *)

InitSettings ==
    /\ InitCall("db", << >>)
    /\ procs = NoProcs
    /\ errOwed = 0
    /\ peer = Absent
    /\ NoStreaming(FALSE)
    /\ NoOllama
    /\ NoLookup
    /\ prefs = DefaultPrefs
    /\ file \in {NoFile, Persisted(DefaultSettings, DefaultPrefs)}
    /\ ucalls = [i \in Callers |-> IdleCall]

\* Nothing but the store, its lock and its file changes.
StoreOnly ==
    /\ UNCHANGED <<callVars, procs, peer, streamVars, lookupVars, errOwed>>
    /\ UNCHANGED <<opc, upc, url, remote, taken, chatEvents, ores>>

\* update_setting(key, value): let mut store = state.lock()..?;
UpdateSettingLock(i) ==
    /\ ucalls[i].pc = "idle"
    /\ lock = "free"
    /\ lock' = i
    /\ \E k \in Keys \cup OtherKeys, v \in JsonValues :
          ucalls' = [ucalls EXCEPT ![i] =
                        [@ EXCEPT !.pc = "locked", !.op = "update_setting",
                                  !.key = k, !.val = v,
                                  !.before = Snapshot(settings, prefs, file)]]
    /\ UNCHANGED <<settings, prefs, file>>
    /\ StoreOnly

\* update_llm_settings(settings): let mut store = state.lock()..?;
UpdateLlmLock(i) ==
    /\ ucalls[i].pc = "idle"
    /\ lock = "free"
    /\ lock' = i
    /\ \E h \in Hosts, p \in Ports :
          ucalls' = [ucalls EXCEPT ![i] =
                        [@ EXCEPT !.pc = "locked", !.op = "update_llm_settings",
                                  !.val = [host |-> h, port |-> p],
                                  !.before = Snapshot(settings, prefs, file)]]
    /\ UNCHANGED <<settings, prefs, file>>
    /\ StoreOnly

\* The call returns r; the guard is dropped.
UpdateReturns(i, r, saves) ==
    /\ ucalls' = [ucalls EXCEPT ![i] =
                      [@ EXCEPT !.pc = "done", !.res = r, !.saves = saves,
                                !.after = Snapshot(settings', prefs', file')]]
    /\ lock' = "free"

\* store.save() writes the file and is Ok, or fails and is Err.
Save(i, saves) ==
    \/ /\ file' = Persisted(settings', prefs')
       /\ UpdateReturns(i, "Ok", saves)
    \/ /\ file' \in FailedWrites(file, settings', prefs')
       /\ UpdateReturns(i, "Err: write", saves)

\* update_setting: _ => return Err(format!("Unknown setting: {}", key))
UpdateSettingUnknown(i) ==
    /\ ucalls[i].pc = "locked"
    /\ ucalls[i].op = "update_setting"
    /\ ~Recognized(ucalls[i].key)
    /\ UNCHANGED <<settings, prefs, file>>
    /\ UpdateReturns(i, "Err: Unknown setting", ucalls[i].saves)
    /\ StoreOnly

\* update_setting: the arm of the key stores the value; store.save()
UpdateSettingSave(i) ==
    /\ ucalls[i].pc = "locked"
    /\ ucalls[i].op = "update_setting"
    /\ Recognized(ucalls[i].key)
    /\ prefs' = IF ucalls[i].key \in Keys
                THEN [prefs EXCEPT ![ucalls[i].key] =
                         Converted(ucalls[i].key, ucalls[i].val, prefs[ucalls[i].key])]
                ELSE prefs
    /\ UNCHANGED settings
    /\ Save(i, ucalls[i].saves + 1)
    /\ StoreOnly

\* update_llm_settings: store.settings.llm = settings; store.save()
UpdateLlmSave(i) ==
    /\ ucalls[i].pc = "locked"
    /\ ucalls[i].op = "update_llm_settings"
    /\ settings' = ucalls[i].val
    /\ UNCHANGED prefs
    /\ Save(i, ucalls[i].saves + 1)
    /\ StoreOnly

NextSettings ==
    \E i \in Callers :
        \/ UpdateSettingLock(i)
        \/ UpdateLlmLock(i)
        \/ UpdateSettingUnknown(i)
        \/ UpdateSettingSave(i)
        \/ UpdateLlmSave(i)

SpecSettings == InitSettings /\ [][NextSettings]_vars

----------------------------------------------------------------------------
(* Properties of run_python_analysis and get_db_data *)

Analysis == fn = "analysis"
Returned == pc = "done"
\* The call got as far as a worker that took the request.
WorkerRan == result.kind \in {"ok", "timeout", "noresponse"}

\* C1: when run_python_analysis returns, on every outcome, the bridge's ends
\* of the worker's stdin, stdout and stderr are closed and the worker process
\* is not running.
C1_ReturnLeavesNoWorker ==
    (Analysis /\ Returned) =>
        /\ \A c \in {"stdin", "stdout", "stderr"} : chan[c] # "open"
        /\ ~Alive

----------------------------------------------------------------------------
\* The positions 1..n in order.
Upto(n) == [i \in 1..n |-> i]

\* N well-formed progress lines followed by one response line.
ProgressThenTerminal(s) ==
    /\ Len(s) >= 1
    /\ \A i \in 1..(Len(s) - 1) : s[i] = ProgressLine
    /\ s[Len(s)] \in {TerminalLine, ShapedLine}

----------------------------------------------------------------------------
\* C3: a worker that took the request and then stays silent, its output open,
\* does not keep the call in the read loop past the deadline plus one poll
\* interval: by then the call has returned Timeout and killed the worker.
C3_SilentWorkerTimesOut ==
    /\ (Analysis /\ pc = "read" /\ Len(script) = 0
           /\ worker.mode = "running" /\ worker.out) =>
          elapsed <= TimeoutTicks + PollTicks
    /\ (Analysis /\ Returned /\ result.kind = "timeout") => ~Alive

----------------------------------------------------------------------------
\* C4: once the output has ended without a response, the call goes on to
\* return NoResponse whatever the worker does: at every point before the
\* return it can take a step of its own or is waiting for time to pass, and
\* what it returns is NoResponse.
C4_NoResponseNeverHangs ==
    (Analysis /\ final_response = 0) =>
        /\ pc \in {"drain", "reap", "sleep"} => ENABLED (BridgeNext \/ Tick)
        /\ (Returned /\ "drain" \in phases) => result = Err("noresponse")

----------------------------------------------------------------------------
\* The Reaper has run: the diagnostic drain and a wait for the exit status.
Reaped == {"drain", "wait"} \subseteq phases

\* C5: every outcome of the read loop of run_python_analysis, success or
\* failure, is returned only after the Reaper has run.
C5_EveryOutcomeReaped ==
    (Analysis /\ Returned /\ WorkerRan) => Reaped

----------------------------------------------------------------------------
\* The first position of the output whose line the loop takes as the response.
FirstTerminal(s) ==
    LET T == {i \in 1..Len(s) : LineAction(s[i]) = "terminal"}
    IN  IF T = {} THEN 0 ELSE CHOOSE i \in T : \A j \in T : i <= j

\* C6: at most one response is honoured per call of run_python_analysis: it is
\* the first line classified as terminal, the loop has stopped on it, no line
\* after it has been read or forwarded, and it is what the call returns.
C6_FirstTerminalWins ==
    (Analysis /\ final_response # 0) =>
        /\ final_response = FirstTerminal(script)
        /\ rpos = final_response
        /\ pc # "read"
        /\ \A k \in 1..Len(emitted) : emitted[k] < final_response
        /\ Returned => result = Ok(final_response)

\* A call returned its response although the worker wrote a progress line and
\* another response line after it.
C6_Witness ==
    /\ Analysis /\ Returned
    /\ result = Ok(1)
    /\ script = <<TerminalLine, ProgressLine, TerminalLine>>

----------------------------------------------------------------------------
\* C7: the bridge's end of the worker's stdin is closed before the first output
\* line is read, so a worker that reads its input to the end has seen the end
\* by then.
C7_StdinClosedBeforeRead ==
    (Analysis /\ pc = "read") =>
        /\ chan.stdin = "closed"
        /\ worker.mode # "awaitEOF"

----------------------------------------------------------------------------
\* C8: when the request cannot be written, run_python_analysis waits for or
\* kills the worker before it returns the failure.
C8_WriteFailureCleansUp ==
    (Analysis /\ Returned /\ result.kind = "write") =>
        phases \cap {"wait", "kill"} # {}

----------------------------------------------------------------------------
\* C9: in run_python_analysis and get_db_data no line read after the deadline
\* expired is classified, so a call never returns Ok with a response that was
\* read after expiry.
C9_NoResponseAfterExpiry ==
    /\ ~acceptedLate
    /\ result.kind = "ok" => lateAt = 0

\* A response line was read after the deadline expired, and the call returned
\* Timeout.
C9_Witness ==
    /\ Returned
    /\ result = Err("timeout")
    /\ lateAt # 0
    /\ ActionOf(fn, script[lateAt]) = "terminal"
    /\ elapsed > TimeoutTicks

----------------------------------------------------------------------------
\* A noise line: one that does not start with '{' once trimmed.
IsNoise(l) == l.utf8 /\ ~l.brace
\* A JSON line.
IsJsonLine(l) == l.utf8 /\ l.brace /\ l.json
\* An output of JSON lines with noise lines among them.
JsonWithNoise(s) == \A i \in 1..Len(s) : IsNoise(s[i]) \/ IsJsonLine(s[i])

\* The positions of the lines of s[i..] that are not noise, in order.
RECURSIVE JsonPositions(_, _)
JsonPositions(s, i) ==
    IF i > Len(s) THEN << >>
    ELSE (IF IsNoise(s[i]) THEN << >> ELSE <<i>>) \o JsonPositions(s, i + 1)

\* The read loop run on the lines at positions J[k..] alone, none of them
\* noise, with no deadline expiring: what is emitted, what is returned, and how
\* many lines are read.
RECURSIVE JsonOnlyRun(_, _, _, _)
JsonOnlyRun(s, J, k, em) ==
    IF k > Len(J) THEN [emitted |-> em, result |-> Outcome(0), read |-> Len(J)]
    ELSE LET a == Classify(s[J[k]])
         IN  IF a = "progress" THEN JsonOnlyRun(s, J, k + 1, Forward(em, J[k]))
             ELSE IF a = "terminal"
                  THEN [emitted |-> em, result |-> Outcome(J[k]), read |-> k]
             ELSE JsonOnlyRun(s, J, k + 1, em)

\* Everything a call can emit and return when the worker writes only the JSON
\* lines of s: the run above, or a Timeout at any line that run reads.
JsonOnlyOutcomes(s) ==
    LET J == JsonPositions(s, 1)
        whole == JsonOnlyRun(s, J, 1, << >>)
    IN  {[emitted |-> whole.emitted, result |-> whole.result]}
        \cup {[emitted |-> JsonOnlyRun(s, SubSeq(J, 1, k - 1), 1, << >>).emitted,
               result  |-> Err("timeout")] : k \in 1..whole.read}

\* A noise line written after the last JSON line was read after the deadline
\* expired.
TrailingNoiseLate ==
    /\ lateAt # 0
    /\ IsNoise(script[lateAt])
    /\ \A i \in (lateAt + 1)..Len(script) : IsNoise(script[i])

----------------------------------------------------------------------------
\* C11: run_python_analysis reports NoResponse only when the output was read
\* to its end without a response and the deadline had not expired: a read loop
\* that ends with no response, from where NoResponse is all the call can
\* return, ends before the deadline has expired, for past the deadline the
\* outcome is Timeout.
C11_NoResponseOnlyInTime ==
    Analysis =>
        /\ (Returned /\ result = Err("noresponse")) =>
              (rpos = Len(script) /\ final_response = 0)
        /\ (pc = "drain" /\ final_response = 0) => ~Expired(elapsed)

----------------------------------------------------------------------------
\* What run_python_analysis returns once a worker has taken the request, told
\* from the output and from whether a line was read after the deadline alone.
OutcomeOf(s, late) ==
    IF late # 0 THEN Err("timeout") ELSE Outcome(FirstTerminal(s))

\* How many lines the read loop takes from an output when no deadline expires.
LinesTaken(s) == IF FirstTerminal(s) = 0 THEN Len(s) ELSE FirstTerminal(s)

\* C13: a failure of the sink while a progress event is forwarded never ends
\* the read loop and never reaches the caller: whichever emit calls failed,
\* the loop has read on to the response or to the end of the output, and the
\* call returns what it returns when every emit succeeds.
C13_SinkFailureSwallowed ==
    Analysis =>
        /\ \A i \in sinkFailed : \E k \in 1..Len(emitted) : emitted[k] = i
        /\ (Returned /\ WorkerRan) =>
              /\ result = OutcomeOf(script, lateAt)
              /\ lateAt = 0 => rpos = LinesTaken(script)

\* The first of two emit calls failed, the second succeeded, and the call
\* returned the response that followed them.
C13_Witness ==
    /\ Analysis /\ Returned
    /\ script = <<ProgressLine, ProgressLine, TerminalLine>>
    /\ sinkFailed = {1}
    /\ emitted = <<1, 2>>
    /\ result = Ok(3)

----------------------------------------------------------------------------
\* The call spawned a worker.
Spawned == spawns > 0

\* C14: in every call that spawns the API worker (run_python_analysis,
\* get_db_data, calculate_metrics, update_terminology_mapping) exactly one
\* request is written to the worker's stdin, and it is written before any line
\* of the worker's output is read.
C14_OneRequestBeforeRead ==
    /\ written <= 1
    /\ (pc = "read" \/ rpos > 0) => written = 1
    /\ (Returned /\ Spawned /\ result.kind # "write") => written = 1

----------------------------------------------------------------------------
\* C15: in get_db_data, calculate_metrics and update_terminology_mapping the
\* worker that was spawned has exited or been killed when the call returns,
\* on every exit path.
C15_SecondaryCallsDestroyWorker ==
    (fn \in {"db", "metrics", "mapping"} /\ Returned /\ Spawned) => ~Alive

----------------------------------------------------------------------------
\* C16: a launch failure of run_python_analysis is final and leaves nothing
\* behind: the call has returned, no process was spawned, no pipe exists and
\* no progress event was forwarded; and on every outcome a call spawns at most
\* one worker.
C16_LaunchFailureLeavesNothing ==
    Analysis =>
        /\ spawns <= 1
        /\ Cardinality({p \in Pids : procs[p] # NoWorker}) = spawns
        /\ result = Err("launch") =>
              /\ Returned
              /\ spawns = 0 /\ child = 0 /\ chan = NoChild
              /\ emitted = << >> /\ rpos = 0

\* The launch failed although the worker, had it started, had a progress line
\* and a response to write.
C16_Witness ==
    /\ Analysis /\ Returned
    /\ result = Err("launch")
    /\ script = <<ProgressLine, TerminalLine>>
    /\ procs = NoProcs

----------------------------------------------------------------------------
\* C20: once run_python_analysis has a response, it goes on to return it
\* within the drain, the cleanup window and one kill, whatever the worker
\* does: at every point before the return the call can take a step of its own
\* or is waiting for time to pass inside the cleanup window, and what it
\* returns is the response.
C20_ResponseReturnedInBoundedTime ==
    (Analysis /\ final_response # 0) =>
        /\ ~Returned => ENABLED (BridgeNext \/ Tick)
        /\ pc \in {"reap", "sleep"} => elapsed <= CleanupTicks
        /\ Returned => result = Ok(final_response)

----------------------------------------------------------------------------
\* The progress lines the read loop forwards from an output when no deadline
\* expires: those before the first response.
ProgressBefore(s) ==
    LET n == LinesTaken(s)
        P == {i \in 1..n : LineAction(s[i]) = "progress"}
    IN  IF P = {} THEN << >>
        ELSE [k \in 1..Cardinality(P) |->
                 CHOOSE i \in P : Cardinality({j \in P : j <= i}) = k]

\* C12: two invocations in flight own different workers; what the one at
\* hand forwards and returns follows from its own worker's output and its own
\* deadline whatever the other invocation does, so that two invocations whose
\* workers write the same output, neither reading a line past its deadline,
\* return the same result after the same progress events; and a worker has
\* been killed only if the invocation that owns it killed it.
C12_CallsAreIndependent ==
    /\ (child # 0 /\ peer.child # 0) => child # peer.child
    /\ (Returned /\ WorkerRan) =>
          /\ result = OutcomeOf(script, lateAt)
          /\ lateAt = 0 => emitted = ProgressBefore(script)
    /\ (child # 0 /\ worker.mode = "killed") => "kill" \in phases
    /\ (peer.child # 0 /\ procs[peer.child].mode = "killed") => "kill" \in peer.phases

\* The other invocation killed its worker and returned; the invocation at
\* hand, which killed nothing, forwarded its worker's progress event and
\* returned its response, and its worker went on to exit by itself.
C12_Witness ==
    /\ script = <<ProgressLine, TerminalLine>>
    /\ Returned /\ result = Ok(2) /\ emitted = <<1>>
    /\ "kill" \notin phases /\ worker.mode = "exited"
    /\ peer.pc = "done" /\ procs[peer.child].mode = "killed"

----------------------------------------------------------------------------
\* C19: the loop of start_db_streaming is a fixed-iteration loop: whether or
\* not the database file exists on any iteration, the thread runs no
\* iteration after the one in which its counter exceeds 100, and emits at
\* most 101 "db-update" events.
C19_FixedIterationLoop ==
    /\ counter <= StopAfter + 1
    /\ updates <= StopAfter + 1

----------------------------------------------------------------------------
\* An Ollama command is awaiting the server: send(), json(), or the next item
\* of the stream.
Awaiting(c) == opc[c] \in {"send", "json", "stream"}

\* C17: every Ollama command gets host and port through get_base_url, which
\* holds the settings mutex only while it reads them: a command holds the lock
\* only inside get_base_url, never while it awaits the server, it awaits with
\* the URL read from the store, and a settings update can take the lock
\* whenever no command is inside get_base_url, however long a request or a
\* chat stream lasts.
C17_LockNotHeldAcrossAwait ==
    /\ \A c \in OllamaCmds :
          /\ lock = c => opc[c] = "locked"
          /\ Awaiting(c) => (lock # c /\ url[c] # NoUrl)
    /\ (upc = "idle" /\ \A c \in OllamaCmds : opc[c] # "locked") => ENABLED UpdateLock

\* The settings were updated, to another host, while chat_stream was in its
\* stream with the URL it had read before.
C17_Witness ==
    /\ opc["chat_stream"] = "stream" /\ taken = 1
    /\ url["chat_stream"] = [host |-> "127.0.0.1", port |-> 11434]
    /\ upc = "done"
    /\ settings = [host |-> "ollama.lan", port |-> 8080]

----------------------------------------------------------------------------
\* The body of the response has ended and chat_stream has taken all of it.
StreamEnded == remote.closed /\ taken = Len(remote.items)

\* C18: chat_stream ends when the remote ends the stream and has no deadline
\* of its own: it has returned Ok(()) only if the stream has ended; once in
\* the stream, it returns as soon as the stream has ended; and while the
\* stream is open with nothing to read it can take no step, whatever it read
\* before.
C18_StreamEndsOnlyOnClose ==
    /\ ores["chat_stream"] = "ok" => (opc["chat_stream"] = "done" /\ StreamEnded)
    /\ (opc["chat_stream"] = "stream" /\ StreamEnded) => ENABLED StreamEnd
    /\ (opc["chat_stream"] = "stream" /\ ~remote.closed /\ taken = Len(remote.items)) =>
          ~ENABLED ChatStreamNext

\* chat_stream read a line that said done and then an error, went on, and
\* returned Ok(()) when the server ended the body.
C18_Witness ==
    /\ opc["chat_stream"] = "done" /\ ores["chat_stream"] = "ok"
    /\ remote.items = <<DoneChunk, ErrItem>> /\ taken = 2
    /\ Len(chatEvents) = 2

----------------------------------------------------------------------------
\* C21: in the Reaper of run_python_analysis the kill is issued if and only if
\* try_wait saw no exit status during the cleanup window: a worker seen to have
\* exited is left as it exited, and a kill is followed by exactly one more
\* check of the exit status, which is made in no other case.
C21_KillOnlyIfNoStatusSeen ==
    (Analysis /\ Returned /\ "wait" \in phases) =>
        /\ "kill" \in phases <=> ~status
        /\ status => worker = Dead
        /\ rechecks = IF "kill" \in phases THEN 1 ELSE 0

\* The worker answered and did not exit within the cleanup window: it was
\* killed and its status checked once more.
C21_Witness ==
    /\ Analysis /\ Returned /\ result.kind = "ok"
    /\ elapsed = CleanupTicks
    /\ ~status /\ "kill" \in phases /\ worker = Killed /\ rechecks = 1

----------------------------------------------------------------------------
\* C22: the diagnostic drain of run_python_analysis reads at most ten lines of
\* the worker's stderr, and what the call returns does not depend on them: at
\* the limit the drain reads no further line and is over, whether or not
\* stderr is still open; in the drain and after it the response is the one the
\* read loop left, and a call that went through the drain returns the outcome
\* of the worker's stdout alone.
C22_DrainBoundedAndIgnored ==
    Analysis =>
        /\ errRead <= DrainLimit
        /\ (pc = "drain" /\ errRead = DrainLimit) => (ENABLED DrainDone /\ ~ENABLED DrainLine)
        /\ (pc = "drain" \/ "drain" \in phases) =>
              /\ final_response = FirstTerminal(script)
              /\ (final_response = 0 => rpos = Len(script))
              /\ Returned => result = Outcome(FirstTerminal(script))

\* The drain has read ten lines after the response was captured, and the
\* worker, still running, has another line waiting and keeps stderr open.
C22_Witness ==
    /\ Analysis /\ pc = "drain"
    /\ errRead = DrainLimit /\ errBuf > 0
    /\ worker.mode = "running" /\ worker.err
    /\ final_response = 2 /\ script = <<ProgressLine, TerminalLine>>

----------------------------------------------------------------------------
\* The lines the read loop has classified: those it has read, but for the one
\* on which the deadline check returned.
Classified == {i \in 1..rpos : i # lateAt}

\* The line parses as a ProgressUpdate whose status is "progress".
IsProgressEvent(l) == l.utf8 /\ l.brace /\ ParsesAsProgressUpdate(l) /\ l.status = "progress"

\* The line begins with '{' and parses as neither shape.
IsNeitherShape(l) ==
    l.utf8 /\ l.brace /\ ~ParsesAsProgressUpdate(l) /\ ~ParsesAsPythonResponse(l)

----------------------------------------------------------------------------
\* The call is waiting for its worker to exit.
InExitWait == pc \in {"wait", "reap", "sleep"}

\* C24: every wait of the bridge for the exit of a worker is a poll-and-sleep
\* loop bounded by a deadline or a cleanup window, never a blocking wait: a
\* call that waits for a worker that has not exited can always go on by
\* itself, through a step of its own or the passing of time.
C24_ExitWaitsArePolled ==
    (InExitWait /\ Alive) => ENABLED (BridgeNext \/ Tick)

----------------------------------------------------------------------------
\* C25: run_python_script_with_timeout polls the worker against a deadline
\* fixed when it starts.  It returns Ok(stdout) only when it saw the worker
\* exit with success, Err("Script failed") when it saw it exit with a failure,
\* and when a poll finds the worker running after the timeout has elapsed it
\* kills it and returns Err("Operation timed out").  While the worker runs
\* the call is never blocked, it sleeps only while the timeout has not
\* elapsed, and it has returned by the timeout plus one poll interval.
C25_ScriptPolledAgainstDeadline ==
    /\ sres = "ok" => (sworker = [mode |-> "exited", code |-> "success"] /\ sout.utf8)
    /\ sres = "Script failed" <=>
          (spc = "done" /\ sworker = [mode |-> "exited", code |-> "failure"]
             /\ sres # "Error waiting for process")
    /\ sres = "Operation timed out" <=> sworker.mode = "killed"
    /\ sworker.mode = "killed" => waited > ScriptTimeout(cmd)
    /\ spc = "sleep" => waited <= ScriptTimeout(cmd)
    /\ spc \in {"poll", "sleep", "done"} => waited <= ScriptTimeout(cmd) + PollTicks
    /\ spc = "poll" => ENABLED (PollFailed \/ PollSucceeded \/ PollTimedOut \/ PollSleep)
    /\ (spc = "poll" /\ sworker.mode = "running" /\ waited > ScriptTimeout(cmd)) =>
          ~ENABLED PollSleep

\* search_companies waited its whole timeout for a script that went on
\* running, killed it one poll later and returned the timeout.
C25_Witness ==
    /\ cmd = "search_companies" /\ spc = "done"
    /\ waited = ScriptTimeout(cmd) + PollTicks
    /\ sworker.mode = "killed"
    /\ sres = "Operation timed out"

----------------------------------------------------------------------------
\* run_python_script_with_timeout returned an Err.
ScriptFailed == sres \notin {"none", "ok"}

\* C28: the lookup commands return no Err for a failure of the script.
\* Whenever run_python_script_with_timeout returns Err (launch failure,
\* failure status, timeout, or any other), the command returns Ok with
\* success false, no results, a count of zero, the failure string as error
\* and the query it was given; it returns Err only when the script ran to a
\* successful end and its output is not a JSON document.
C28_LookupFailureIsOkResult ==
    /\ ScriptFailed =>
          cres = [kind |-> "Ok", success |-> FALSE, results |-> None,
                  error |-> Some(sres), query |-> Some(query), count |-> Some("0")]
    /\ cres.kind = "Err" <=> (sres = "ok" /\ ~sout.json)
    /\ (sres = "ok" /\ sout.json) => (cres.kind = "Ok" /\ cres.query = Some(query))

\* get_stock_quote timed out and returned Ok with success false and the
\* timeout message.
C28_Witness ==
    /\ cmd = "get_stock_quote" /\ query = "o'neil"
    /\ sres = "Operation timed out"
    /\ cres.kind = "Ok" /\ ~cres.success /\ cres.error = Some("Operation timed out")
    /\ cres.count = Some("0") /\ cres.results = None

----------------------------------------------------------------------------
\* The positions chat_stream owes an event to: every line that parses as JSON
\* of every chunk it has taken, and every item that is an error.
Owed ==
    UNION {IF remote.items[n].ok
           THEN {<<n, k>> : k \in {j \in 1..Len(remote.items[n].lines) : remote.items[n].lines[j].json}}
           ELSE {<<n, 0>>} : n \in 1..taken}

\* Position a comes before position b in the body.
Before(a, b) == a[1] < b[1] \/ (a[1] = b[1] /\ a[2] < b[2])

\* C26: chat_stream emits one "chat-stream-event" for each line, of each chunk
\* received, that parses as JSON, and one "chat-stream-error" for each item
\* that is a transport error, in the order received and nothing else; the
\* event's done is that of the line, false when the line has none; an error
\* item does not end the loop and does not make chat_stream return Err, which
\* it does only when no stream was opened.
C26_OneEventPerJsonLine ==
    /\ {chatEvents[i].at : i \in 1..Len(chatEvents)} = Owed
    /\ \A i, j \in 1..Len(chatEvents) : i < j => Before(chatEvents[i].at, chatEvents[j].at)
    /\ \A i \in 1..Len(chatEvents) :
          LET n == chatEvents[i].at[1]
              k == chatEvents[i].at[2]
          IN  IF k = 0
              THEN chatEvents[i].topic = "chat-stream-error"
              ELSE /\ chatEvents[i].topic = "chat-stream-event"
                   /\ chatEvents[i].done = (remote.items[n].lines[k].done = "true")
    /\ ores["chat_stream"] = "err" => (taken = 0 /\ remote.items = << >>)
    /\ (opc["chat_stream"] = "stream" /\ taken < Len(remote.items)) => ENABLED StreamItem

\* A chunk of three lines gave two events, the first with done false for want
\* of the field; the error that followed gave one error event, and the call
\* returned Ok(()) when the body ended.
C26_Witness ==
    /\ remote.items = <<MixedChunk, ErrItem>> /\ taken = 2
    /\ chatEvents = <<[topic |-> "chat-stream-event", done |-> FALSE, at |-> <<1, 1>>],
                      [topic |-> "chat-stream-event", done |-> TRUE,  at |-> <<1, 3>>],
                      [topic |-> "chat-stream-error", done |-> FALSE, at |-> <<2, 0>>]>>
    /\ ores["chat_stream"] = "ok"

----------------------------------------------------------------------------
\* C27: get_db_data enforces its deadline.  A worker that gives no response
\* does not keep the call in the read loop past the deadline plus one poll
\* interval, and a worker that answered and does not exit does not keep the
\* call waiting: after the response the call can always go on by itself.
C27_DbDeadlineEnforced ==
    fn = "db" =>
        /\ (pc = "read" /\ Alive) => elapsed <= TimeoutTicks + PollTicks
        /\ (pc = "wait" /\ Alive) => ENABLED (BridgeNext \/ Tick)

----------------------------------------------------------------------------
\* C29: update_setting with a key it does not recognize returns
\* Err("Unknown setting: ..") without a save and leaves the settings in the
\* store and the file as they were; with a recognized key it calls save, once;
\* and whenever update_setting or update_llm_settings returns Ok, the file
\* holds, whole, the settings that are in the store at that moment, whichever
\* other call ran before it or waits for the lock.
C29_UpdateSettingPersists ==
    /\ \A i \in Callers : lock = i <=> ucalls[i].pc = "locked"
    /\ \A i \in Callers : ucalls[i].pc = "done" =>
          /\ (ucalls[i].op = "update_setting" /\ ucalls[i].key \notin Keys) =>
                /\ ucalls[i].res = "Err: Unknown setting"
                /\ ucalls[i].saves = 0
                /\ ucalls[i].after = ucalls[i].before
          /\ (ucalls[i].op = "update_setting" /\ ucalls[i].key \in Keys) =>
                ucalls[i].saves = 1
          /\ ucalls[i].res = "Ok" =>
                ucalls[i].after.file = Persisted(ucalls[i].after.llm, ucalls[i].after.prefs)
    /\ (/\ lock = "free"
        /\ \E i \in Callers : ucalls[i].res = "Ok"
        /\ \A j \in Callers : ucalls[j].res \in {"none", "Ok", "Err: Unknown setting"}) =>
          file = Persisted(settings, prefs)

\* One call set the theme and was saved, the other named an unknown key and
\* was refused: the file holds the new theme with the rest.
C29_Witness ==
    /\ ucalls["first"].pc = "done" /\ ucalls["first"].key = "theme"
    /\ ucalls["first"].res = "Ok"
    /\ ucalls["second"].pc = "done" /\ ucalls["second"].key = "ollama_host"
    /\ ucalls["second"].res = "Err: Unknown setting"
    /\ ucalls["second"].before.prefs["theme"] = "dark"
    /\ prefs["theme"] = "dark" /\ file = Persisted(settings, prefs)

----------------------------------------------------------------------------
\* C30: run_python_analysis never takes a line whose status is "progress" as
\* the response, whether or not the line has the progress fields: such a line
\* never ends the read loop, and no call returns Ok with it.
C30_ProgressNeverTerminal ==
    Analysis =>
        /\ final_response # 0 => script[final_response].status # "progress"
        /\ result.kind = "ok" => script[result.payload].status # "progress"

----------------------------------------------------------------------------
\* C31: a worker that writes more diagnostic output than the pipe holds before
\* its response does not deadlock run_python_analysis or get_db_data: while
\* the call waits in its read loop for a worker that is still writing
\* diagnostics, the call or the worker
\* can take a step.
C31_NoPipeDeadlock ==
    (pc = "read" /\ worker.mode = "running" /\ errOwed > 0) =>
        ENABLED (PipeBridgeNext \/ PipeWorkerNext)

----------------------------------------------------------------------------
\* The payloads of the "chat-stream-event" events, in the order emitted.
Payloads(evs) == [i \in 1..Len(evs) |-> [topic |-> evs[i].topic, done |-> evs[i].done]]

\* C32: however the transport cuts the body into chunks, chat_stream has
\* emitted, when it returns, the events of the body's lines: the same
\* payloads, in the same order, as when the body comes in one chunk.
C32_ChunkingIndependent ==
    (opc["chat_stream"] = "done" /\ ores["chat_stream"] = "ok") =>
        Payloads(chatEvents) = Payloads(EventsOf(Chunk(remote.body), 1))

----------------------------------------------------------------------------
\* C33: the first "db-update" event of a start_db_streaming thread has action
\* "initial" and every later one has action "incremental"; once
\* stop_db_streaming has returned, the thread emits no "db-update" event.
C33_InitialThenIncrementalUntilStop ==
    /\ dbLog.first \in {"none", "initial"}
    /\ dbLog.others \subseteq {"incremental"}
    /\ ~dbLog.late

----------------------------------------------------------------------------
\* The first line of s that calculate_metrics's read loop takes as the
\* response, or 0.
FirstResponse(s) ==
    LET T == {i \in 1..Len(s) : ActionOf("metrics", s[i]) = "terminal"}
    IN  IF T = {} THEN 0 ELSE CHOOSE i \in T : \A j \in T : i <= j

\* C34: when calculate_metrics returns and its worker had a response line to
\* emit, the result is Ok with that response; the result is Err only when the
\* worker was not launched or its output has no response line.
C34_MetricsReturnsResponse ==
    (fn = "metrics" /\ Returned) =>
        /\ (Spawned /\ FirstResponse(script) # 0) => result = Ok(FirstResponse(script))
        /\ result.kind # "ok" => (result = Err("launch") \/ FirstResponse(script) = 0)

====
